---- MODULE Spec2Model ----
(***************************************************************************)
(* Model of debug_gdb.py: a GDB Python script that walks a kernel image    *)
(* through two breakpoints.  The script is a straight line of              *)
(* gdb.execute(...) calls and print(...) calls, with one try/except        *)
(* around the frame check and the inspection block.                        *)
(*                                                                         *)
(* pc is the source line of the statement about to run.  A gdb.execute     *)
(* call blocks: it is issued, and later either returns or raises.  What    *)
(* the debugger does is outside the script, so both outcomes are possible  *)
(* at every call, and the frame query may return any text.                 *)
(***************************************************************************)
EXTENDS Integers, Sequences, FiniteSets

VARIABLES pc, pending, trace, frame_info, uncaught

vars == <<pc, pending, trace, frame_info, uncaught>>

\* ------------------------------------------------------------------ bounds
\* Longest run of characters the frame text carries before and after its
\* function name.
MaxPad == 1

\* ------------------------------------------------------- values and helpers
\* Python's None (no call in flight, no exception propagating).
None == "None"

\* frame_info before line 36 has assigned it.
Unbound == "<unbound>"

\* The line after the last statement of the script.
EndOfScript == 62

\* The exceptions a gdb.execute call can raise into the script.
Exceptions == {"gdb.error", "KeyboardInterrupt"}

\* Texts are sequences of characters.
KernelMain == <<"k","e","r","n","e","l","_","m","a","i","n">>

\* Variant of the substring test that drops the last character of needle.
Contains_shortNeedle(needle, hay) ==
    \E i \in 0..(Len(hay) - Len(needle) + 1) :
        SubSeq(hay, i + 1, i + Len(needle) - 1) = SubSeq(needle, 1, Len(needle) - 1)

\* Python's  needle in hay  on strings: needle occurs as a contiguous run.
Contains(needle, hay) ==
    \E i \in 0..(Len(hay) - Len(needle)) :
        SubSeq(hay, i + 1, i + Len(needle)) = needle

PadChars == {" ", "n"}

Pads == UNION { [1..k -> PadChars] : k \in 0..MaxPad }

\* What the frame line can name: the target, the target cut short, the
\* target with a character in the middle, another function, nothing.
Cores == { KernelMain,
           SubSeq(KernelMain, 1, Len(KernelMain) - 1),
           SubSeq(KernelMain, 1, 7) \o <<" ">> \o SubSeq(KernelMain, 8, 11),
           <<"_","s","t","a","r","t">>,
           <<>> }

\* The texts gdb.execute("frame", to_string=True) may return.
FrameTexts == { p \o c \o s : p \in Pads, c \in Cores, s \in Pads }

\* The messages of the script.
MsgBreakStart      == "Breakpoint set at _start"
MsgBreakKernelMain == "Breakpoint set at kernel_main"
MsgReachedStart    == "\n===== Reached _start ====="
MsgContinuing      == "\nContinuing to kernel_main..."
MsgReached         == "\n===== Reached kernel_main ====="
MsgFailed          == "\n===== Failed to reach kernel_main ====="
MsgReady           == "\nDebugger session ready. Type 'c' to continue execution or use other GDB commands."

\* The debugger commands of the script.
CmdFile       == "file build/kernel.elf"
CmdTarget     == "target remote localhost:1234"
CmdBreakStart == "break _start"
CmdBreakMain  == "break kernel_main"
CmdContinue   == "continue"
CmdInfoRegs   == "info registers"
CmdFrame      == "frame"
CmdStack      == "x/16x $sp"
CmdX0         == "p/x $x0"
CmdCurrentEL  == "p/d (unsigned long)($CurrentEL >> 2) & 0x3"
CmdNext       == "next"

Ev(kind, arg) == [kind |-> kind, arg |-> arg]

\* ------------------------------------------------------------ the try block
\* Variants of the try block: one that opens a statement too early, one
\* that wraps the whole script.
InTry_fromContinue(l) == l >= 32 /\ l <= 57

InTry_wholeScript(l) == l <= 57

\* The statements inside  try:  (lines 36-57).
InTry(l) == l >= 36 /\ l <= 57

\* Variant of the handler:  except Exception:  lets KeyboardInterrupt pass.
Caught_exceptException(e) == e # "KeyboardInterrupt"

\* The handler is a bare  except:  and catches every exception.
Caught(e) == TRUE

\* Where control goes when the statement at line l raises e.
Throw(e, l) ==
    IF InTry(l) /\ Caught(e)
    THEN pc' = 59 /\ uncaught' = None
    ELSE pc' = l /\ uncaught' = e

\* ----------------------------------------------------------- the statements
Running == uncaught = None /\ pc # EndOfScript

\* gdb.execute(cmd) at line l, followed by the statement at line next.
Execute(cmd, l, next) ==
    /\ Running /\ pc = l
    /\ \/ /\ pending = None
          /\ pending' = cmd
          /\ trace' = Append(trace, Ev("call", cmd))
          /\ UNCHANGED <<pc, frame_info, uncaught>>
       \/ /\ pending = cmd
          /\ pending' = None
          /\ trace' = Append(trace, Ev("return", cmd))
          /\ pc' = next
          /\ UNCHANGED <<frame_info, uncaught>>
       \/ /\ pending = cmd
          /\ pending' = None
          /\ trace' = Append(trace, Ev("raise", cmd))
          /\ \E e \in Exceptions : Throw(e, l)
          /\ UNCHANGED frame_info

\* print(msg) at line l, followed by the statement at line next.
print(msg, l, next) ==
    /\ Running /\ pc = l /\ pending = None
    /\ trace' = Append(trace, Ev("print", msg))
    /\ pc' = next
    /\ UNCHANGED <<pending, frame_info, uncaught>>

L10 == Execute(CmdFile, 10, 13)
L13 == Execute(CmdTarget, 13, 16)
L16 == Execute(CmdBreakStart, 16, 17)
L17 == print(MsgBreakStart, 17, 20)
L20 == Execute(CmdBreakMain, 20, 21)
L21 == print(MsgBreakKernelMain, 21, 24)
\* Variant of line 24 that falls through to line 28, without the marker.
L24_noMarker == Execute(CmdContinue, 24, 28)

L24 == Execute(CmdContinue, 24, 25)
L25 == print(MsgReachedStart, 25, 28)
L28 == Execute(CmdInfoRegs, 28, 31)
L31 == print(MsgContinuing, 31, 32)
L32 == Execute(CmdContinue, 32, 36)

\* frame_info = gdb.execute("frame", to_string=True)
L36 ==
    /\ Running /\ pc = 36
    /\ \/ /\ pending = None
          /\ pending' = CmdFrame
          /\ trace' = Append(trace, Ev("call", CmdFrame))
          /\ UNCHANGED <<pc, frame_info, uncaught>>
       \/ /\ pending = CmdFrame
          /\ pending' = None
          /\ trace' = Append(trace, Ev("return", CmdFrame))
          /\ \E t \in FrameTexts : frame_info' = t
          /\ pc' = 37
          /\ UNCHANGED uncaught
       \/ /\ pending = CmdFrame
          /\ pending' = None
          /\ trace' = Append(trace, Ev("raise", CmdFrame))
          /\ \E e \in Exceptions : Throw(e, 36)
          /\ UNCHANGED frame_info

\* Variant of line 37 without the else branch.
L37_noElse ==
    /\ Running /\ pc = 37 /\ pending = None
    /\ pc' = 38
    /\ UNCHANGED <<pending, trace, frame_info, uncaught>>

\* if "kernel_main" in frame_info: ... else: ...
L37 ==
    /\ Running /\ pc = 37 /\ pending = None
    /\ pc' = IF Contains(KernelMain, frame_info) THEN 38 ELSE 57
    /\ UNCHANGED <<pending, trace, frame_info, uncaught>>

L38 == print(MsgReached, 38, 40)
L40 == Execute(CmdInfoRegs, 40, 43)
L43 == Execute(CmdStack, 43, 46)
L46 == Execute(CmdX0, 46, 47)
L47 == Execute(CmdCurrentEL, 47, 50)
L50 == Execute(CmdNext, 50, 51)
\* Variant of line 51 that skips the third step.
L51_skipNext == Execute(CmdNext, 51, 55)

L51 == Execute(CmdNext, 51, 52)
L52 == Execute(CmdNext, 52, 55)
L55 == Execute(CmdInfoRegs, 55, 61)
L57 == print(MsgFailed, 57, 61)
L59 == print(MsgFailed, 59, 61)
L61 == print(MsgReady, 61, EndOfScript)

Init ==
    /\ pc = 10
    /\ pending = None
    /\ trace = <<>>
    /\ frame_info = Unbound
    /\ uncaught = None

Next ==
    \/ L10 \/ L13 \/ L16 \/ L17 \/ L20 \/ L21 \/ L24 \/ L25 \/ L28
    \/ L31 \/ L32 \/ L36 \/ L37 \/ L38 \/ L40 \/ L43 \/ L46 \/ L47
    \/ L50 \/ L51 \/ L52 \/ L55 \/ L57 \/ L59 \/ L61

Spec == Init /\ [][Next]_vars

\* ---------------------------------------------------------------- history
\* Number of events of the given kind and argument so far.
Count(kind, arg) == Cardinality({ i \in DOMAIN trace : trace[i] = Ev(kind, arg) })

Args(kind) ==
    LET s == SelectSeq(trace, LAMBDA e : e.kind = kind)
    IN  [ i \in 1..Len(s) |-> s[i].arg ]

\* The commands issued and the messages printed, in order.
Issued == Args("call")

Printed == Args("print")

Raises == { i \in DOMAIN trace : trace[i].kind = "raise" }

Calls == { i \in DOMAIN trace : trace[i].kind = "call" }

\* The run is over: the script ran off its end, or an exception left it.
Terminated == pc = EndOfScript \/ uncaught # None

IsPrefix(s, t) == Len(s) <= Len(t) /\ SubSeq(t, 1, Len(s)) = s

\* Position of the frame query in the history (0: not issued).
FramePos ==
    IF \E i \in DOMAIN trace : trace[i] = Ev("call", CmdFrame)
    THEN CHOOSE i \in DOMAIN trace : trace[i] = Ev("call", CmdFrame)
    ELSE 0

FrameReturned == Count("return", CmdFrame) = 1

FrameRaised == Count("raise", CmdFrame) = 1

\* The text has an occurrence of the target name: it splits into a part
\* before, the name, and a part after.
Occurs(text) ==
    \E i \in 1..Len(text) :
        /\ i + Len(KernelMain) - 1 <= Len(text)
        /\ \A k \in 1..Len(KernelMain) : text[i + k - 1] = KernelMain[k]

FrameNamesTarget == FrameReturned /\ Occurs(frame_info)

\* Commands issued after the frame query, and raises among them.
InspectionCalls == { i \in Calls : FramePos > 0 /\ i > FramePos }

InspectionRaises == { i \in Raises : FramePos > 0 /\ i > FramePos + 1 }

\* Raises of a command outside the guard.
UnguardedRaises == { i \in Raises : FramePos = 0 }

SecondContinueReturned == Count("return", CmdContinue) = 2

Inspection ==
    <<CmdInfoRegs, CmdStack, CmdX0, CmdCurrentEL, CmdNext, CmdNext, CmdNext, CmdInfoRegs>>

FixedList ==
    <<CmdFile, CmdTarget, CmdBreakStart, CmdBreakMain, CmdContinue, CmdInfoRegs,
      CmdContinue, CmdFrame>> \o Inspection

LastEvent == trace[Len(trace)]

PosOf(kind, arg) == CHOOSE i \in DOMAIN trace : trace[i] = Ev(kind, arg)

\* ------------------------------------------------------------------ claims

\* C1 (as stated): in every finished run exactly one of "Reached
\* kernel_main" and "Failed to reach kernel_main" has been printed.
C1_ExactlyOneMarker ==
    Terminated => Count("print", MsgReached) + Count("print", MsgFailed) = 1

\* C1 (amended): each marker is printed at most once; a run that ran off the
\* end of the script printed at least one of them, and printed both exactly
\* when the frame text names kernel_main and an inspection command raised;
\* a run ended by an uncaught exception printed neither.
C1_Markers ==
    /\ Count("print", MsgReached) <= 1
    /\ Count("print", MsgFailed) <= 1
    /\ pc = EndOfScript =>
         /\ Count("print", MsgReached) + Count("print", MsgFailed) >= 1
         /\ (Count("print", MsgReached) + Count("print", MsgFailed) = 2)
              <=> (FrameNamesTarget /\ InspectionRaises # {})
    /\ uncaught # None =>
         Count("print", MsgReached) + Count("print", MsgFailed) = 0

C1_Witness ==
    /\ pc = EndOfScript
    /\ Count("print", MsgReached) = 1
    /\ Count("print", MsgFailed) = 1

\* C2: when the frame text names kernel_main and an inspection command
\* raises, the handler prints the failure marker right away, nothing
\* propagates, no further command is issued, and the run goes on to print
\* the ready line and end.
C2_ScenarioC ==
    (FrameNamesTarget /\ InspectionRaises # {}) =>
        /\ uncaught = None
        /\ Cardinality(InspectionRaises) = 1
        /\ \A i \in InspectionRaises :
             /\ trace[i].arg \in { Inspection[k] : k \in DOMAIN Inspection }
             /\ \A j \in Calls : j < i
             /\ i < Len(trace) => trace[i + 1] = Ev("print", MsgFailed)
             /\ i = Len(trace) => pc = 59
        /\ pc \in {59, 61, EndOfScript}
        /\ pc # EndOfScript => ENABLED Next
        /\ pc = EndOfScript =>
             /\ Count("print", MsgFailed) = 1
             /\ LastEvent = Ev("print", MsgReady)

C2_Witness ==
    /\ pc = EndOfScript
    /\ FrameNamesTarget
    /\ Count("raise", CmdStack) = 1
    /\ LastEvent = Ev("print", MsgReady)

\* What Scenario A promises of a finished run.
FullWalkthrough ==
    /\ uncaught = None
    /\ Printed = <<MsgBreakStart, MsgBreakKernelMain, MsgReachedStart,
                   MsgContinuing, MsgReached, MsgReady>>
    /\ Issued = FixedList
    /\ \A i \in InspectionCalls : i > PosOf("print", MsgReached)
    /\ PosOf("print", MsgReached) > FramePos
    /\ Raises = {}
    /\ LastEvent = Ev("print", MsgReady)

\* C3 (as stated): a finished run in which the commands up to the second
\* continue returned prints both "Reached" markers, runs the whole
\* inspection and ends with the ready line.
C3_ScenarioA_AsStated ==
    (Terminated /\ SecondContinueReturned) => FullWalkthrough

\* C3 (amended): the same, for runs in which moreover the frame query
\* returns text naming kernel_main and no inspection command raises.
C3_ScenarioA ==
    (Terminated /\ SecondContinueReturned /\ FrameNamesTarget
        /\ InspectionRaises = {})
    => FullWalkthrough

C3_Witness ==
    /\ pc = EndOfScript
    /\ FrameNamesTarget
    /\ Raises = {}
    /\ Len(Issued) = 16

\* C4: when the frame query returns text that does not name kernel_main,
\* the failure marker is printed once, no command follows the frame query,
\* "Reached kernel_main" is not printed, and the ready line comes last.
C4_ScenarioB ==
    (FrameReturned /\ ~Occurs(frame_info)) =>
        /\ uncaught = None
        /\ InspectionCalls = {}
        /\ Count("print", MsgReached) = 0
        /\ Count("print", MsgFailed) <= 1
        /\ pc \in {37, 57, 61, EndOfScript}
        /\ pc # EndOfScript => ENABLED Next
        /\ pc \in {61, EndOfScript} => Count("print", MsgFailed) = 1
        /\ pc = EndOfScript =>
             /\ LastEvent = Ev("print", MsgReady)
             /\ PosOf("print", MsgFailed) > FramePos
             /\ PosOf("print", MsgFailed) < PosOf("print", MsgReady)

C4_Witness ==
    /\ pc = EndOfScript
    /\ FrameReturned
    /\ ~Occurs(frame_info)
    /\ Len(frame_info) > Len(KernelMain)
    /\ Count("print", MsgFailed) = 1

\* C5: when the file command raises, the run is over at once: the history
\* is that call and its raise, nothing is printed, no step is possible.
C5_ScenarioD ==
    Count("raise", CmdFile) > 0 =>
        /\ uncaught # None
        /\ trace = <<Ev("call", CmdFile), Ev("raise", CmdFile)>>
        /\ Printed = <<>>
        /\ ~ ENABLED Next

C5_Witness == Count("raise", CmdFile) = 1 /\ uncaught = "gdb.error"

\* C6: a raise by any of the seven commands before the frame query leaves
\* the script: it is the last event of the run, no step follows, and the
\* ready line is never printed.
C6_UnguardedPropagates ==
    /\ \A i \in Raises :
         (FramePos = 0 \/ i < FramePos) =>
            /\ uncaught # None
            /\ i = Len(trace)
            /\ ~ ENABLED Next
            /\ Count("print", MsgReady) = 0
            /\ pc # EndOfScript
    /\ \A k \in 1..7 :
         (Len(Issued) = k /\ pending # None) => ENABLED (Next /\ uncaught' # None)

C6_Witness ==
    /\ uncaught = "gdb.error"
    /\ Count("call", CmdContinue) = 2
    /\ LastEvent = Ev("raise", CmdContinue)

\* C7: once the second continue has returned no exception leaves the
\* script, a step is possible until the end of the script is reached, and
\* the ready line is printed exactly once, as the last event.
C7_SessionSurvives ==
    SecondContinueReturned =>
        /\ uncaught = None
        /\ pc # EndOfScript => (ENABLED Next /\ Count("print", MsgReady) = 0)
        /\ pc = EndOfScript =>
             /\ Count("print", MsgReady) = 1
             /\ LastEvent = Ev("print", MsgReady)

C7_Witness ==
    /\ pc = EndOfScript
    /\ Raises # {}
    /\ Count("print", MsgReady) = 1

\* C8: the commands issued are a prefix of the fixed list, a command is
\* issued only when the one before it has returned, and a run without a
\* raise whose frame text names kernel_main issues the whole list.
C8_FixedOrder ==
    /\ IsPrefix(Issued, FixedList)
    /\ \A i \in Calls :
         /\ i < Len(trace) =>
              /\ trace[i + 1].kind \in {"return", "raise"}
              /\ trace[i + 1].arg = trace[i].arg
         /\ i = Len(trace) => pending = trace[i].arg
         /\ \A j \in Calls : j < i =>
              \E r \in (j + 1)..(i - 1) : trace[r] = Ev("return", trace[j].arg)
    /\ pending # None => (trace # <<>> /\ LastEvent = Ev("call", pending))
    /\ (pc = EndOfScript /\ Raises = {} /\ FrameNamesTarget) =>
         /\ Issued = FixedList
         /\ Count("call", CmdNext) = 3

C8_Witness ==
    /\ pc = EndOfScript
    /\ Issued = FixedList
    /\ Count("return", CmdNext) = 3

\* C9: "Reached kernel_main" is printed, and a command is issued after the
\* frame query, only if the frame query returned text naming kernel_main;
\* when the frame query raises nothing is issued after it and only the
\* failure marker and the ready line are printed after it.
C9_Gated ==
    /\ (Count("print", MsgReached) > 0 \/ InspectionCalls # {}) => FrameNamesTarget
    /\ InspectionCalls # {} =>
         /\ Count("print", MsgReached) = 1
         /\ \A i \in InspectionCalls : i > PosOf("print", MsgReached)
    /\ FrameRaised =>
         /\ InspectionCalls = {}
         /\ Count("print", MsgReached) = 0
         /\ frame_info = Unbound
         /\ uncaught = None
         /\ pc = EndOfScript =>
              SubSeq(trace, FramePos + 2, Len(trace))
                 = <<Ev("print", MsgFailed), Ev("print", MsgReady)>>

C9_Witness ==
    /\ Count("print", MsgReached) = 1
    /\ Len(frame_info) > Len(KernelMain)
    /\ Count("return", CmdStack) = 1

\* C10: once the first continue has returned, "Reached _start" is the next
\* event: it is printed exactly once, directly after that return, and both
\* "Breakpoint set" messages precede it.
C10_ReachedStart ==
    /\ Count("print", MsgReachedStart) <= 1
    /\ Count("return", CmdContinue) >= 1 =>
         \/ /\ pc = 25
            /\ LastEvent = Ev("return", CmdContinue)
            /\ Count("print", MsgReachedStart) = 0
            /\ ENABLED L25
         \/ /\ Count("print", MsgReachedStart) = 1
            /\ trace[PosOf("print", MsgReachedStart) - 1] = Ev("return", CmdContinue)
    /\ Count("print", MsgReachedStart) = 1 =>
         /\ Count("print", MsgBreakStart) = 1
         /\ Count("print", MsgBreakKernelMain) = 1
         /\ PosOf("print", MsgBreakStart) < PosOf("print", MsgBreakKernelMain)
         /\ PosOf("print", MsgBreakKernelMain) < PosOf("print", MsgReachedStart)
         /\ Count("call", CmdFrame) = 0 \/ FramePos > PosOf("print", MsgReachedStart)

C10_Witness ==
    /\ Count("print", MsgReachedStart) = 1
    /\ LastEvent = Ev("print", MsgReachedStart)
====
